---- MODULE Spec2Model ----
(***************************************************************************)
(* The raw syscall invocation layer of rustix (linux_raw backend):         *)
(*   - build-time backend selection   (src/imp/linux_raw/arch/mod.rs)      *)
(*   - the dispatch macros            (src/imp/linux_raw/arch/mod.rs)      *)
(*   - the riscv32 inline backend     (arch/inline/riscv32.rs)             *)
(*   - the directory end-to-end test  (tests/fs/dir.rs)                    *)
(***************************************************************************)
EXTENDS Integers, Sequences, FiniteSets, TLC

VARIABLES
    target,     \* the build target: [arch, asm, runtime], fixed per build
    unit,       \* build: the macro call site being compiled (or NoUnit)
    resolved,   \* build: the backend functions the expanded call resolves to
    bstatus,    \* build: "idle" | "expanded" | "ok" | "error"
    pc,         \* per thread: position inside one invocation
    inv,        \* per thread: the invocation as written at the call site
    call,       \* per thread: the backend call made (function, nr, args)
    regs,       \* per thread: the register file
    atTrap,     \* per thread: the register file as it was when the trap ran
    traps,      \* per thread: number of trap instructions executed
    kresp,      \* per thread: the word the kernel left in the return register
    ret,        \* per thread: the RetReg value returned to the caller
    threads,    \* the threads of this run
    kernel,     \* kernel side: open descriptors and directory offsets
    test        \* the state of tests/fs/dir.rs::test_dir

vars == <<target, unit, resolved, bstatus, pc, inv, call, regs, atTrap, traps,
          kresp, ret, threads, kernel, test>>

buildVars == <<unit, resolved, bstatus>>
runVars   == <<pc, inv, call, regs, atTrap, traps, kresp, ret>>

-----------------------------------------------------------------------------
(* Bounds *)

\* Number of threads of the concurrent specification.
NThreads == 2

\* How many directory entries one getdents64 call may return at most.
MaxBatch == 2

-----------------------------------------------------------------------------
(* Machine words.  riscv32 is a 32-bit target: a word is 32 bits, kept as   *)
(* two 16-bit limbs <<hi, lo>> so that unsigned words stay representable.   *)

Limb == 2^16

Word == (0 .. Limb - 1) \X (0 .. Limb - 1)

\* The usize word holding the two's-complement encoding of integer v.
ToWord(v) == << (v \div Limb) % Limb, v % Limb >>

\* The signed (isize) interpretation of a word.
Signed(w) == IF w[1] >= Limb \div 2
             THEN (w[1] - Limb) * Limb + w[2]
             ELSE w[1] * Limb + w[2]

\* What a register holds before anything was loaded into it.
Junk == << 57005, 48879 >>

-----------------------------------------------------------------------------
(* Build targets and backend selection: arch/mod.rs lines 19-47 *)

DirectArchs == {"arm", "aarch64", "mips", "mips64", "powerpc64", "riscv64", "x86_64"}

\* Every architecture with a per-architecture backend: the ones mod.rs names,
\* and riscv32, whose inline backend is arch/inline/riscv32.rs.
Archs == DirectArchs \cup {"x86", "riscv32"}

Targets == [arch : Archs, asm : BOOLEAN, runtime : BOOLEAN]

\* #[cfg_attr(asm, path = "inline/mod.rs")]
\* #[cfg_attr(not(asm), path = "outline/mod.rs")]  mod asm;
asm(tg) == IF tg.asm THEN "inline" ELSE "outline"

\* #[cfg(any(target_arch = "arm", ...))] use self::asm as choose;
chooseDirect(tg) == IF tg.arch \in DirectArchs THEN {asm(tg)} ELSE {}

\* #[cfg(target_arch = "x86")] use super::vdso_wrappers::x86_via_vdso as choose;
chooseVdso(tg) == IF tg.arch = "x86" THEN {"x86_via_vdso"} ELSE {}

\* The items named `choose` that exist in arch/mod.rs for this target.
choose(tg) == chooseDirect(tg) \cup chooseVdso(tg)

-----------------------------------------------------------------------------
(* The riscv32 inline backend: arch/inline/riscv32.rs.                      *)
(* Each function is one asm! block: "ecall" with its operands.  A function  *)
(* is recorded by its operands: nrreg is the register of `in(..) nr`, ins[k]*)
(* the register the k-th ArgReg parameter is bound to, out the register of  *)
(* the lateout/inlateout operand ("none" for options(noreturn)).            *)

NoOut == "none"

\* syscall0_readonly reading its result from a1 instead of a0.
syscall0_readonly_out_a1 ==
    [name |-> "syscall0_readonly", nrreg |-> "a7", ins |-> <<>>, out |-> "a1",
     readonly |-> TRUE, noreturn |-> FALSE]

syscall0_readonly ==
    [name |-> "syscall0_readonly", nrreg |-> "a7", ins |-> <<>>, out |-> "a0",
     readonly |-> TRUE, noreturn |-> FALSE]

\* syscall1 reading its result from a1 instead of a0.
syscall1_out_a1 ==
    [name |-> "syscall1", nrreg |-> "a7", ins |-> <<"a0">>, out |-> "a1",
     readonly |-> FALSE, noreturn |-> FALSE]

syscall1 ==
    [name |-> "syscall1", nrreg |-> "a7", ins |-> <<"a0">>, out |-> "a0",
     readonly |-> FALSE, noreturn |-> FALSE]

syscall1_readonly ==
    [name |-> "syscall1_readonly", nrreg |-> "a7", ins |-> <<"a0">>, out |-> "a0",
     readonly |-> TRUE, noreturn |-> FALSE]

\* syscall1_noreturn binding its argument to a1 instead of a0.
syscall1_noreturn_arg_a1 ==
    [name |-> "syscall1_noreturn", nrreg |-> "a7", ins |-> <<"a1">>, out |-> NoOut,
     readonly |-> FALSE, noreturn |-> TRUE]

syscall1_noreturn ==
    [name |-> "syscall1_noreturn", nrreg |-> "a7", ins |-> <<"a0">>, out |-> NoOut,
     readonly |-> FALSE, noreturn |-> TRUE]

syscall2 ==
    [name |-> "syscall2", nrreg |-> "a7", ins |-> <<"a0", "a1">>, out |-> "a0",
     readonly |-> FALSE, noreturn |-> FALSE]

syscall2_readonly ==
    [name |-> "syscall2_readonly", nrreg |-> "a7", ins |-> <<"a0", "a1">>, out |-> "a0",
     readonly |-> TRUE, noreturn |-> FALSE]

syscall3 ==
    [name |-> "syscall3", nrreg |-> "a7", ins |-> <<"a0", "a1", "a2">>, out |-> "a0",
     readonly |-> FALSE, noreturn |-> FALSE]

syscall3_readonly ==
    [name |-> "syscall3_readonly", nrreg |-> "a7", ins |-> <<"a0", "a1", "a2">>, out |-> "a0",
     readonly |-> TRUE, noreturn |-> FALSE]

syscall4 ==
    [name |-> "syscall4", nrreg |-> "a7", ins |-> <<"a0", "a1", "a2", "a3">>, out |-> "a0",
     readonly |-> FALSE, noreturn |-> FALSE]

\* syscall4_readonly with the operands of a2 and a3 exchanged.
syscall4_readonly_a2_a3 ==
    [name |-> "syscall4_readonly", nrreg |-> "a7", ins |-> <<"a0", "a1", "a3", "a2">>,
     out |-> "a0", readonly |-> TRUE, noreturn |-> FALSE]

syscall4_readonly ==
    [name |-> "syscall4_readonly", nrreg |-> "a7", ins |-> <<"a0", "a1", "a2", "a3">>, out |-> "a0",
     readonly |-> TRUE, noreturn |-> FALSE]

syscall5 ==
    [name |-> "syscall5", nrreg |-> "a7", ins |-> <<"a0", "a1", "a2", "a3", "a4">>, out |-> "a0",
     readonly |-> FALSE, noreturn |-> FALSE]

syscall5_readonly ==
    [name |-> "syscall5_readonly", nrreg |-> "a7", ins |-> <<"a0", "a1", "a2", "a3", "a4">>, out |-> "a0",
     readonly |-> TRUE, noreturn |-> FALSE]

\* syscall6 with the operands of a4 and a5 exchanged.
syscall6_a4_a5 ==
    [name |-> "syscall6", nrreg |-> "a7", ins |-> <<"a0", "a1", "a2", "a3", "a5", "a4">>,
     out |-> "a0", readonly |-> FALSE, noreturn |-> FALSE]

syscall6 ==
    [name |-> "syscall6", nrreg |-> "a7", ins |-> <<"a0", "a1", "a2", "a3", "a4", "a5">>, out |-> "a0",
     readonly |-> FALSE, noreturn |-> FALSE]

syscall6_readonly ==
    [name |-> "syscall6_readonly", nrreg |-> "a7", ins |-> <<"a0", "a1", "a2", "a3", "a4", "a5">>, out |-> "a0",
     readonly |-> TRUE, noreturn |-> FALSE]

\* Every function arch/inline/riscv32.rs defines.
riscv32 ==
    {syscall0_readonly, syscall1, syscall1_readonly, syscall1_noreturn,
     syscall2, syscall2_readonly, syscall3, syscall3_readonly,
     syscall4, syscall4_readonly, syscall5, syscall5_readonly,
     syscall6, syscall6_readonly}

-----------------------------------------------------------------------------
(* The backends whose code is not in this tree (the other architectures'    *)
(* inline files, the outline backend, the x86 vDSO wrappers).  Each exposes *)
(* the full surface over the registers its architecture designates, which   *)
(* are kept abstract here.                                                  *)

PlainName == <<"syscall0", "syscall1", "syscall2", "syscall3",
               "syscall4", "syscall5", "syscall6", "syscall7">>

ReadOnlyName == <<"syscall0_readonly", "syscall1_readonly", "syscall2_readonly",
                  "syscall3_readonly", "syscall4_readonly", "syscall5_readonly",
                  "syscall6_readonly", "syscall7_readonly">>

\* The kernel's calling convention: where it reads the operation number and
\* the arguments, and where it leaves the result.
Riscv32Abi == [nrreg |-> "a7",
               argregs |-> <<"a0", "a1", "a2", "a3", "a4", "a5">>,
               retreg |-> "a0"]

OtherAbi == [nrreg |-> "nr",
             argregs |-> <<"arg0", "arg1", "arg2", "arg3", "arg4", "arg5", "arg6">>,
             retreg |-> "res"]

Abi(arch) == IF arch = "riscv32" THEN Riscv32Abi ELSE OtherAbi

Registers == {"a0", "a1", "a2", "a3", "a4", "a5", "a6", "a7",
              "nr", "arg0", "arg1", "arg2", "arg3", "arg4", "arg5", "arg6", "res"}

\* The surface a backend whose code is not in this tree offers over calling
\* convention `abi`: every arity the convention has registers for, in both
\* returning classifications, and the one-argument NoReturn function.
SpecBackend(abi) ==
    { [name |-> PlainName[n + 1], nrreg |-> abi.nrreg,
       ins |-> SubSeq(abi.argregs, 1, n), out |-> abi.retreg,
       readonly |-> FALSE, noreturn |-> FALSE] : n \in 0..Len(abi.argregs) }
    \cup
    { [name |-> ReadOnlyName[n + 1], nrreg |-> abi.nrreg,
       ins |-> SubSeq(abi.argregs, 1, n), out |-> abi.retreg,
       readonly |-> TRUE, noreturn |-> FALSE] : n \in 0..Len(abi.argregs) }
    \cup
    { [name |-> "syscall1_noreturn", nrreg |-> abi.nrreg,
       ins |-> SubSeq(abi.argregs, 1, 1), out |-> NoOut,
       readonly |-> FALSE, noreturn |-> TRUE] }

\* The functions module `mod` offers on architecture `arch`
\* (inline/mod.rs picks the per-architecture file).
Backend(mod, arch) ==
    IF mod = "inline" /\ arch = "riscv32" THEN riscv32 ELSE SpecBackend(Abi(arch))

\* The functions of that backend called `name`.
Lookup(mod, arch, name) == { f \in Backend(mod, arch) : f.name = name }

-----------------------------------------------------------------------------
(* Register marshaling (reg.rs) and the operation catalog (linux_raw_sys).  *)

\* linux_raw_sys::general::__NR_*  (the generic numbering riscv uses)
general(name) ==
    CASE name = "openat"     -> 56
      [] name = "getdents64" -> 61
      [] name = "read"       -> 63
      [] name = "exit_group" -> 94
      [] name = "getpid"     -> 172
      [] name = "gettid"     -> 178
      [] name = "mmap"       -> 222

OpNames == {"openat", "getdents64", "read", "exit_group", "getpid", "gettid", "mmap"}

\* Operations after which the kernel never resumes the caller.
NoReturnOps == {"exit_group"}

\* reg::nr(n).to_asm(): the operation number as a machine word.
nr(n) == ToWord(n)

\* A logical argument: [kind, val].  `.into()` then `.to_asm()` gives its word:
\* integers and descriptors by two's complement at pointer width, addresses
\* as they are.
into(v) ==
    CASE v.kind = "c_int"  -> ToWord(v.val)
      [] v.kind = "c_uint" -> ToWord(v.val)
      [] v.kind = "fd"     -> ToWord(v.val)
      [] v.kind = "ptr"    -> v.val

\* FromAsm::from_asm(r0): the raw word tagged as coming from R0.
from_asm(w) == [reg |-> "R0", raw |-> w]

\* Interpreting a raw result word (Linux convention): a signed value in
\* [-4095, -1] is a negated error identifier, anything else is the payload.
from_raw(w) ==
    IF Signed(w) >= -4095 /\ Signed(w) <= -1
    THEN [kind |-> "error", id |-> 0 - Signed(w)]
    ELSE [kind |-> "success", payload |-> w]

-----------------------------------------------------------------------------
(* The dispatch macros: arch/mod.rs lines 56-218.  A macro call expands to  *)
(* one call expression: the path `choose`, the function name of the matching*)
(* arm, nr(..) of the operation and each argument's .into(), in order.      *)

\* syscall! passing its arguments in reverse order.
syscall_reversed(name, a) ==
    [path |-> "choose", fn |-> PlainName[Len(a) + 1], nr |-> nr(general(name)),
     args |-> [k \in 1..Len(a) |-> into(a[Len(a) + 1 - k])]]

syscall(name, a) ==
    CASE Len(a) = 0 -> [path |-> "choose", fn |-> "syscall0", nr |-> nr(general(name)),
                        args |-> <<>>]
      [] Len(a) = 1 -> [path |-> "choose", fn |-> "syscall1", nr |-> nr(general(name)),
                        args |-> <<into(a[1])>>]
      [] Len(a) = 2 -> [path |-> "choose", fn |-> "syscall2", nr |-> nr(general(name)),
                        args |-> <<into(a[1]), into(a[2])>>]
      [] Len(a) = 3 -> [path |-> "choose", fn |-> "syscall3", nr |-> nr(general(name)),
                        args |-> <<into(a[1]), into(a[2]), into(a[3])>>]
      [] Len(a) = 4 -> [path |-> "choose", fn |-> "syscall4", nr |-> nr(general(name)),
                        args |-> <<into(a[1]), into(a[2]), into(a[3]), into(a[4])>>]
      [] Len(a) = 5 -> [path |-> "choose", fn |-> "syscall5", nr |-> nr(general(name)),
                        args |-> <<into(a[1]), into(a[2]), into(a[3]), into(a[4]),
                                   into(a[5])>>]
      [] Len(a) = 6 -> [path |-> "choose", fn |-> "syscall6", nr |-> nr(general(name)),
                        args |-> <<into(a[1]), into(a[2]), into(a[3]), into(a[4]),
                                   into(a[5]), into(a[6])>>]
      [] Len(a) = 7 -> [path |-> "choose", fn |-> "syscall7", nr |-> nr(general(name)),
                        args |-> <<into(a[1]), into(a[2]), into(a[3]), into(a[4]),
                                   into(a[5]), into(a[6]), into(a[7])>>]

syscall_readonly(name, a) ==
    CASE Len(a) = 0 -> [path |-> "choose", fn |-> "syscall0_readonly",
                        nr |-> nr(general(name)), args |-> <<>>]
      [] Len(a) = 1 -> [path |-> "choose", fn |-> "syscall1_readonly",
                        nr |-> nr(general(name)), args |-> <<into(a[1])>>]
      [] Len(a) = 2 -> [path |-> "choose", fn |-> "syscall2_readonly",
                        nr |-> nr(general(name)), args |-> <<into(a[1]), into(a[2])>>]
      [] Len(a) = 3 -> [path |-> "choose", fn |-> "syscall3_readonly",
                        nr |-> nr(general(name)),
                        args |-> <<into(a[1]), into(a[2]), into(a[3])>>]
      [] Len(a) = 4 -> [path |-> "choose", fn |-> "syscall4_readonly",
                        nr |-> nr(general(name)),
                        args |-> <<into(a[1]), into(a[2]), into(a[3]), into(a[4])>>]
      [] Len(a) = 5 -> [path |-> "choose", fn |-> "syscall5_readonly",
                        nr |-> nr(general(name)),
                        args |-> <<into(a[1]), into(a[2]), into(a[3]), into(a[4]),
                                   into(a[5])>>]
      [] Len(a) = 6 -> [path |-> "choose", fn |-> "syscall6_readonly",
                        nr |-> nr(general(name)),
                        args |-> <<into(a[1]), into(a[2]), into(a[3]), into(a[4]),
                                   into(a[5]), into(a[6])>>]
      [] Len(a) = 7 -> [path |-> "choose", fn |-> "syscall7_readonly",
                        nr |-> nr(general(name)),
                        args |-> <<into(a[1]), into(a[2]), into(a[3]), into(a[4]),
                                   into(a[5]), into(a[6]), into(a[7])>>]

\* #[cfg(feature = "runtime")]: the only arm takes exactly one argument.
syscall_noreturn(name, a) ==
    CASE Len(a) = 1 -> [path |-> "choose", fn |-> "syscall1_noreturn",
                        nr |-> nr(general(name)), args |-> <<into(a[1])>>]

Macros == {"syscall", "syscall_readonly", "syscall_noreturn"}

\* The argument counts for which a macro has an arm.
MacroArities(m) == IF m = "syscall_noreturn" THEN {1} ELSE 0..7

\* Whether the macro exists in this build.
MacroDefined(m, tg) == m = "syscall_noreturn" => tg.runtime

\* The expansion of `m!(name, a...)`.
Expand(m, name, a) ==
    CASE m = "syscall"          -> syscall(name, a)
      [] m = "syscall_readonly" -> syscall_readonly(name, a)
      [] m = "syscall_noreturn" -> syscall_noreturn(name, a)

\* What the expanded call resolves to: for each item `choose` names, the
\* functions of that backend with the called name.  The call compiles when
\* this is exactly one function.
Resolve(tg, e) == UNION { Lookup(b, tg.arch, e.fn) : b \in choose(tg) }

-----------------------------------------------------------------------------
(* Inputs *)

\* Two argument lists as a caller writes them; every position holds a
\* different word, so a misplaced argument shows.
LArgs1 == << [kind |-> "fd", val |-> -100],
             [kind |-> "ptr", val |-> <<32768, 16>>],
             [kind |-> "c_uint", val |-> 524288],
             [kind |-> "c_uint", val |-> 0],
             [kind |-> "c_int", val |-> -1],
             [kind |-> "c_uint", val |-> 5],
             [kind |-> "c_uint", val |-> 7] >>

LArgs2 == << [kind |-> "c_uint", val |-> 3],
             [kind |-> "ptr", val |-> <<32768, 32>>],
             [kind |-> "c_uint", val |-> 4096],
             [kind |-> "c_int", val |-> -2],
             [kind |-> "c_uint", val |-> 1],
             [kind |-> "c_uint", val |-> 9],
             [kind |-> "c_uint", val |-> 11] >>

ArgLists == {LArgs1, LArgs2}

\* The operations a call site of each classification names.  A NoReturn call
\* site names only operations that never return, a ReadOnly one only queries.
SiteOps(m) ==
    CASE m = "syscall"          -> {"read", "mmap", "exit_group"}
      [] m = "syscall_readonly" -> {"getpid", "gettid"}
      [] m = "syscall_noreturn" -> NoReturnOps

\* The macro of the same classification as backend function f.
ClassOf(f) ==
    IF f.noreturn THEN "syscall_noreturn"
    ELSE IF f.readonly THEN "syscall_readonly" ELSE "syscall"

\* The words the kernel may leave as the result of an operation that returns:
\* zero, a small count, an address-like value, the edges of the error band.
RespPool == { ToWord(0), ToWord(3), <<32768, 4096>>,
              ToWord(-1), ToWord(-4095), ToWord(-4096) }

-----------------------------------------------------------------------------
(* State *)

NoFn   == [name |-> "none", nrreg |-> "none", ins |-> <<>>, out |-> NoOut,
           readonly |-> FALSE, noreturn |-> FALSE]
NoCall == [fn |-> NoFn, nr |-> <<>>, args |-> <<>>]
NoInv  == [macro |-> "none", name |-> "none", args |-> <<>>]
NoUnit == [macro |-> "none", expr |-> <<>>]
NoWord == <<>>
NoTest == [pc |-> "off"]
NoKernel == [fds |-> <<>>]

InitRun(T) ==
    /\ threads = T
    /\ pc = [t \in T |-> "idle"]
    /\ inv = [t \in T |-> NoInv]
    /\ call = [t \in T |-> NoCall]
    /\ regs = [t \in T |-> [x \in Registers |-> Junk]]
    /\ atTrap = [t \in T |-> [x \in Registers |-> Junk]]
    /\ traps = [t \in T |-> 0]
    /\ kresp = [t \in T |-> NoWord]
    /\ ret = [t \in T |-> from_asm(NoWord)]

InitBuild ==
    /\ unit = NoUnit
    /\ resolved = {}
    /\ bstatus = "idle"

Init ==
    /\ target \in Targets
    /\ InitBuild
    /\ InitRun({1})
    /\ kernel = NoKernel
    /\ test = NoTest

-----------------------------------------------------------------------------
(* One invocation, step by step *)

\* The register file after the asm! block's input operands are bound:
\* nr in f.nrreg, the k-th argument in f.ins[k]; other registers keep their
\* content.
LoadRegs(f, r, nrw, args) ==
    [x \in Registers |->
        IF x = f.nrreg THEN nrw
        ELSE IF \E k \in 1..Len(f.ins) : f.ins[k] = x
             THEN args[CHOOSE k \in 1..Len(f.ins) : f.ins[k] = x]
             ELSE r[x]]

\* A macro call site `m!(name, a...)`: expands, resolves through `choose`,
\* and calls the one function it resolves to.  It compiles only if the macro
\* exists, an arm matches and the name resolves to exactly one function.
Calls(t, m, name, a) ==
    /\ pc[t] = "idle"
    /\ MacroDefined(m, target)
    /\ Len(a) \in MacroArities(m)
    /\ LET e == Expand(m, name, a)
           fs == Resolve(target, e)
       IN /\ Cardinality(fs) = 1
          /\ \E f \in fs :
                /\ Len(f.ins) = Len(e.args)
                /\ call' = [call EXCEPT ![t] = [fn |-> f, nr |-> e.nr, args |-> e.args]]
    /\ inv' = [inv EXCEPT ![t] = [macro |-> m, name |-> name, args |-> a]]
    /\ pc' = [pc EXCEPT ![t] = "called"]
    /\ UNCHANGED <<target, buildVars, regs, atTrap, traps, kresp, ret, threads>>

Dispatch(t, m, name, a) == Calls(t, m, name, a) /\ UNCHANGED <<kernel, test>>

\* A call of a function of module `asm` by its own path (arch::asm::f),
\* which does not go through `choose`.
DirectCall(t, f, name, a) ==
    /\ pc[t] = "idle"
    /\ f \in Backend(asm(target), target.arch)
    /\ Len(a) = Len(f.ins)
    /\ call' = [call EXCEPT ![t] =
                   [fn |-> f, nr |-> nr(general(name)),
                    args |-> [k \in 1..Len(a) |-> into(a[k])]]]
    /\ inv' = [inv EXCEPT ![t] = [macro |-> "direct", name |-> name, args |-> a]]
    /\ pc' = [pc EXCEPT ![t] = "called"]
    /\ UNCHANGED <<target, buildVars, regs, atTrap, traps, kresp, ret, threads,
                   kernel, test>>

\* The input operands are in their registers.
Load(t) ==
    /\ pc[t] = "called"
    /\ regs' = [regs EXCEPT ![t] = LoadRegs(call[t].fn, regs[t], call[t].nr, call[t].args)]
    /\ pc' = [pc EXCEPT ![t] = "loaded"]
    /\ UNCHANGED <<target, buildVars, inv, call, atTrap, traps, kresp, ret, threads,
                   kernel, test>>

\* Whether the operation number the kernel reads is one that never returns.
NeverReturns(tg, r) ==
    \E name \in NoReturnOps : r[Abi(tg.arch).nrreg] = ToWord(general(name))

\* The identifiers the kernel knows the caller by.
Pid == 4000
Tid(t) == Pid + t

\* The result words the kernel may give to the request in the registers:
\* the identifier queries have one answer, other operations any of RespPool.
Results(t, tg, r) ==
    CASE r[Abi(tg.arch).nrreg] = ToWord(general("getpid")) -> {ToWord(Pid)}
      [] r[Abi(tg.arch).nrreg] = ToWord(general("gettid")) -> {ToWord(Tid(t))}
      [] OTHER -> RespPool

\* "ecall": the kernel takes the request from the registers of its calling
\* convention.  Either the operation ends the caller, or the kernel leaves a
\* result word in the return register and resumes after the instruction.  A
\* function declared options(noreturn) has no code after the instruction.
Ecall(t) ==
    /\ pc[t] = "loaded"
    /\ atTrap' = [atTrap EXCEPT ![t] = regs[t]]
    /\ traps' = [traps EXCEPT ![t] = @ + 1]
    /\ IF NeverReturns(target, regs[t])
       THEN /\ pc' = [pc EXCEPT ![t] = "terminated"]
            /\ UNCHANGED <<regs, kresp>>
       ELSE \E w \in Results(t, target, regs[t]) :
            /\ regs' = [regs EXCEPT ![t][Abi(target.arch).retreg] = w]
            /\ kresp' = [kresp EXCEPT ![t] = w]
            /\ pc' = [pc EXCEPT ![t] =
                        IF call[t].fn.noreturn THEN "undefined" ELSE "trapped"]
    /\ UNCHANGED <<target, buildVars, inv, call, ret, threads, kernel, test>>

\* FromAsm::from_asm(r0): the function returns the output operand.
Return(t) ==
    /\ pc[t] = "trapped"
    /\ ret' = [ret EXCEPT ![t] = from_asm(regs[t][call[t].fn.out])]
    /\ pc' = [pc EXCEPT ![t] = "returned"]
    /\ UNCHANGED <<target, buildVars, inv, call, regs, atTrap, traps, kresp, threads,
                   kernel, test>>

DoDispatch ==
    \E t \in threads : \E m \in Macros : \E name \in SiteOps(m) :
        \E n \in MacroArities(m) : \E a \in ArgLists :
            Dispatch(t, m, name, SubSeq(a, 1, n))

DoDirectCall ==
    \E t \in threads : \E f \in Backend(asm(target), target.arch) :
        \E name \in SiteOps(ClassOf(f)) : \E a \in ArgLists :
            DirectCall(t, f, name, SubSeq(a, 1, Len(f.ins)))

DoLoad == \E t \in threads : Load(t)

DoEcall == \E t \in threads : Ecall(t)

DoReturn == \E t \in threads : Return(t)

Next == DoDispatch \/ DoDirectCall \/ DoLoad \/ DoEcall \/ DoReturn

Spec == Init /\ [][Next]_vars

-----------------------------------------------------------------------------
(* The build: compiling one macro call site after another *)

\* The call site `m!(name, a...)` is expanded.
BuildExpand(m, name, a) ==
    /\ bstatus = "idle"
    /\ MacroDefined(m, target)
    /\ Len(a) \in MacroArities(m)
    /\ unit' = [macro |-> m, expr |-> Expand(m, name, a)]
    /\ bstatus' = "expanded"
    /\ UNCHANGED <<target, resolved, runVars, threads, kernel, test>>

\* The expanded call's path is resolved; anything but one function is an
\* error of the build.
BuildResolve ==
    /\ bstatus = "expanded"
    /\ resolved' = Resolve(target, unit.expr)
    /\ bstatus' = IF Cardinality(Resolve(target, unit.expr)) = 1 THEN "ok" ELSE "error"
    /\ UNCHANGED <<target, unit, runVars, threads, kernel, test>>

\* The next call site.
BuildContinue ==
    /\ bstatus \in {"ok", "error"}
    /\ unit' = NoUnit
    /\ resolved' = {}
    /\ bstatus' = "idle"
    /\ UNCHANGED <<target, runVars, threads, kernel, test>>

DoBuildExpand ==
    \E m \in Macros : \E name \in SiteOps(m) : \E n \in MacroArities(m) :
        \E a \in ArgLists : BuildExpand(m, name, SubSeq(a, 1, n))

NextBuild == DoBuildExpand \/ BuildResolve \/ BuildContinue

SpecBuild == Init /\ [][NextBuild]_vars

-----------------------------------------------------------------------------
(* Properties of backend selection and of the backend surface *)

\* The target whose backend is arch/inline/riscv32.rs.
OnRiscv32 == target.arch = "riscv32" /\ target.asm

\* C1: at every macro call site, on every target, the name `choose` the
\* expansion calls resolves to exactly one backend.
C1_ChooseExactlyOne ==
    bstatus = "expanded" => Cardinality(choose(target)) = 1

\* C2: 32-bit x86 selects the vDSO backend whatever the asm flag; every other
\* architecture selects inline when asm is available, outline otherwise, and
\* never the vDSO backend.
C2_SelectionFunction ==
    choose(target) =
        IF target.arch = "x86" THEN {"x86_via_vdso"}
        ELSE IF target.asm THEN {"inline"} ELSE {"outline"}

\* C3: the function a dispatch macro arm calls is defined by the
\* per-architecture backend (the riscv32 inline backend): every arity 0..7 in
\* Plain and ReadOnly, and the one-argument NoReturn function.
C3_SurfaceComplete ==
    (OnRiscv32 /\ bstatus = "expanded") =>
        Lookup(asm(target), target.arch, unit.expr.fn) # {}

-----------------------------------------------------------------------------
(* Properties of one invocation *)

JunkRegs == [x \in Registers |-> Junk]

PastTrap(t) == pc[t] \in {"trapped", "returned", "terminated", "undefined"}

\* C4: in an invocation of a Plain or ReadOnly riscv32 function, when the
\* trap runs a7 holds the operation id and a_i the i-th marshaled argument;
\* one trap runs per invocation; the word returned is the one the kernel left
\* in a0, which still holds it when it is read.
C4_RegistersAtTrap ==
    \A t \in threads :
        (OnRiscv32 /\ inv[t] # NoInv /\ ~call[t].fn.noreturn) =>
            /\ traps[t] = IF PastTrap(t) THEN 1 ELSE 0
            /\ PastTrap(t) =>
                /\ atTrap[t]["a7"] = nr(general(inv[t].name))
                /\ \A i \in 1..Len(inv[t].args) :
                      atTrap[t][Riscv32Abi.argregs[i]] = into(inv[t].args[i])
            /\ pc[t] = "trapped" => regs[t]["a0"] = kresp[t]
            /\ pc[t] = "returned" => (ret[t].raw = kresp[t] /\ regs[t]["a0"] = kresp[t])

C4_Witness ==
    \E t \in threads :
        /\ OnRiscv32 /\ pc[t] = "returned" /\ call[t].fn.name = "syscall6"
        /\ inv[t].args = SubSeq(LArgs1, 1, 6)

\* C5: the word a returning invocation hands back is the kernel's word
\* unchanged, so that its classification is the kernel's: error with the
\* magnitude as identifier exactly for signed values in [-4095, -1], success
\* with the word as payload otherwise.
C5_ErrorBand ==
    \A t \in threads :
        pc[t] = "returned" =>
            /\ ret[t].raw = kresp[t]
            /\ (Signed(kresp[t]) \in -4095..-1) =>
                  from_raw(ret[t].raw) = [kind |-> "error", id |-> 0 - Signed(kresp[t])]
            /\ (Signed(kresp[t]) \notin -4095..-1) =>
                  from_raw(ret[t].raw) = [kind |-> "success", payload |-> kresp[t]]

C5_Witness ==
    /\ \E t \in threads :
          /\ pc[t] = "returned" /\ call[t].fn.name = "syscall1" /\ OnRiscv32
          /\ kresp[t] \in {ToWord(-4095), ToWord(-4096), <<32768, 4096>>}

\* What holds of a NoReturn invocation in every state.
C6_NoReturnState ==
    \A t \in threads :
        call[t].fn.noreturn =>
            /\ pc[t] \in {"called", "loaded", "terminated"}
            /\ ret[t] = from_asm(NoWord)
            /\ kresp[t] = NoWord
            /\ pc[t] = "terminated" =>
                /\ traps[t] = 1
                /\ atTrap[t][Abi(target.arch).nrreg] = nr(general(inv[t].name))
                /\ atTrap[t][Abi(target.arch).argregs[1]] = into(inv[t].args[1])

\* Once at the trap that ends it, a thread takes no further step.
C6_Stays ==
    \A t \in threads : pc[t] = "terminated" => pc'[t] = "terminated"

\* C6: a NoReturn invocation has the operation number and its argument in
\* their registers when its one trap runs, reads no result, and never gets
\* past the trap: no later point of the caller is reached.
C6_NoReturn == []C6_NoReturnState /\ [][C6_Stays]_vars

C6_Witness ==
    \E t \in threads :
        OnRiscv32 /\ pc[t] = "terminated" /\ call[t].fn.name = "syscall1_noreturn"

\* The name the arm of macro m for n arguments calls.
ArmName(m, n) ==
    CASE m = "syscall"          -> PlainName[n + 1]
      [] m = "syscall_readonly" -> ReadOnlyName[n + 1]
      [] m = "syscall_noreturn" -> "syscall1_noreturn"

\* C9: a macro call with n arguments calls the selected backend's function of
\* arity n and of the macro's classification, with the resolved operation id
\* and the k-th written argument marshaled in the k-th slot, once.
C9_DispatchPreserves ==
    \A t \in threads :
        inv[t].macro \in Macros =>
            /\ call[t].fn \in Resolve(target, Expand(inv[t].macro, inv[t].name, inv[t].args))
            /\ call[t].fn.name = ArmName(inv[t].macro, Len(inv[t].args))
            /\ Len(call[t].fn.ins) = Len(inv[t].args)
            /\ ClassOf(call[t].fn) = inv[t].macro
            /\ call[t].nr = nr(general(inv[t].name))
            /\ Len(call[t].args) = Len(inv[t].args)
            /\ \A k \in 1..Len(inv[t].args) : call[t].args[k] = into(inv[t].args[k])
            /\ traps[t] <= 1

C9_Witness ==
    \E t \in threads :
        /\ inv[t].macro = "syscall" /\ Len(inv[t].args) = 4 /\ pc[t] = "returned"

\* The function of the other classification and the same arity.
Twin(f) ==
    CHOOSE g \in riscv32 :
        \E n \in 1..6 : {f.name, g.name} = {PlainName[n + 1], ReadOnlyName[n + 1]}

\* C10: syscallN and syscallN_readonly (N in 1..6) behave alike: from the same
\* operation id and arguments the one that ran has loaded the registers, run
\* the trap and returned the word exactly as the other would have.
C10_PlainReadOnlySame ==
    \A t \in threads :
        (OnRiscv32 /\ call[t].fn \in riscv32 /\ ~call[t].fn.noreturn
           /\ Len(call[t].fn.ins) >= 1) =>
            LET g == Twin(call[t].fn) IN
            /\ g.readonly # call[t].fn.readonly
            /\ g.noreturn = call[t].fn.noreturn
            /\ pc[t] = "loaded" =>
                  regs[t] = LoadRegs(g, JunkRegs, call[t].nr, call[t].args)
            /\ PastTrap(t) =>
                  atTrap[t] = LoadRegs(g, JunkRegs, call[t].nr, call[t].args)
            /\ pc[t] = "returned" => ret[t] = from_asm(regs[t][g.out])

C10_Witness ==
    \E t \in threads :
        /\ OnRiscv32 /\ pc[t] = "returned" /\ call[t].fn.name = "syscall4_readonly"

-----------------------------------------------------------------------------
(* Several threads issuing the same read-only query *)

InitConc ==
    /\ target \in {tg \in Targets : ~tg.runtime}
    /\ InitBuild
    /\ InitRun(1..NThreads)
    /\ kernel = NoKernel
    /\ test = NoTest

\* Every thread that has called issued this very call.
SameQuery(m, name, a) ==
    \A u \in threads :
        inv[u] = NoInv \/ inv[u] = [macro |-> m, name |-> name, args |-> a]

ConcDispatch ==
    \E t \in threads : \E name \in SiteOps("syscall_readonly") :
        \E n \in MacroArities("syscall_readonly") :
            /\ SameQuery("syscall_readonly", name, SubSeq(LArgs1, 1, n))
            /\ Dispatch(t, "syscall_readonly", name, SubSeq(LArgs1, 1, n))

ConcDirectCall ==
    \E t \in threads : \E f \in Backend(asm(target), target.arch) :
        \E name \in SiteOps("syscall_readonly") :
            /\ f.readonly
            /\ SameQuery("direct", name, SubSeq(LArgs1, 1, Len(f.ins)))
            /\ DirectCall(t, f, name, SubSeq(LArgs1, 1, Len(f.ins)))

NextConc == ConcDispatch \/ ConcDirectCall \/ DoLoad \/ DoEcall \/ DoReturn

SpecConc == InitConc /\ [][NextConc]_vars

\* What the kernel answers thread t's query.
OwnAnswer(t) ==
    IF inv[t].name = "gettid" THEN ToWord(Tid(t)) ELSE ToWord(Pid)

C7_OwnCall ==
    \A t \in threads :
        /\ PastTrap(t) =>
            /\ atTrap[t][Abi(target.arch).nrreg] = nr(general(inv[t].name))
            /\ \A k \in 1..Len(inv[t].args) :
                  atTrap[t][Abi(target.arch).argregs[k]] = into(inv[t].args[k])
            /\ kresp[t] = OwnAnswer(t)
        /\ pc[t] = "returned" => ret[t].raw = OwnAnswer(t)

\* A step of one thread leaves every other thread's invocation as it was.
C7_Frame ==
    \A t \in threads :
        pc'[t] = pc[t] =>
            /\ regs'[t] = regs[t] /\ atTrap'[t] = atTrap[t] /\ call'[t] = call[t]
            /\ kresp'[t] = kresp[t] /\ ret'[t] = ret[t]

\* C7: whatever the interleaving of the threads' same read-only query, each
\* thread traps with its own operation number and arguments and returns the
\* kernel's answer to its own call; no step of one thread touches another's.
C7_NoMixing == []C7_OwnCall /\ [][C7_Frame]_vars

C7_Witness ==
    /\ OnRiscv32
    /\ Cardinality(threads) >= 2
    /\ \A t \in threads :
          /\ pc[t] = "returned" /\ inv[t].name = "gettid"
          /\ call[t].fn.name = "syscall0_readonly"
    /\ \A t, u \in threads : t # u => ret[t] # ret[u]

-----------------------------------------------------------------------------
(* tests/fs/dir.rs::test_dir, with the pieces it runs on: fs::openat and    *)
(* fs::Dir (callers of syscall!) and the kernel's directory operations.     *)

\* User memory: the C strings the test passes, and the address of Dir's buffer.
Mem == (<<32768, 16>> :> ".") @@ (<<32768, 32>> :> "Cargo.toml")
DotPtr == [kind |-> "ptr", val |-> <<32768, 16>>]
CargoPtr == [kind |-> "ptr", val |-> <<32768, 32>>]
BufPtr == [kind |-> "ptr", val |-> <<32768, 4096>>]

\* rustix::fs::cwd(): AT_FDCWD.
cwd == [kind |-> "fd", val |-> -100]

\* OFlags::RDONLY | OFlags::CLOEXEC, and with O_DIRECTORY as Dir::read_from adds.
RdonlyCloexec == [kind |-> "c_uint", val |-> 524288]
RdonlyDirCloexec == [kind |-> "c_uint", val |-> 524288 + 65536]
ModeEmpty == [kind |-> "c_uint", val |-> 0]
BufLen == [kind |-> "c_uint", val |-> 4096]

Perms(S) ==
    { s \in [1..Cardinality(S) -> S] : \A i, j \in 1..Cardinality(S) : i # j => s[i] # s[j] }

\* The current directory as the kernel lists it: ".", ".." and Cargo.toml in
\* any order, possibly with one more entry before or after.
Listings ==
    LET base == Perms({".", "..", "Cargo.toml"})
    IN base \cup { <<"src">> \o s : s \in base } \cup { s \o <<"src">> : s \in base }

Count(seq, x) == Cardinality({ i \in 1..Len(seq) : seq[i] = x })

Min(a, b) == IF a <= b THEN a ELSE b

InitDir ==
    /\ target \in {tg \in Targets : ~tg.runtime}
    /\ InitBuild
    /\ InitRun({1})
    /\ \E l \in Listings : kernel = [fds |-> <<>>, listing |-> l, ubuf |-> <<>>]
    /\ test = [pc |-> "start", t |-> -1, dir |-> -1, file |-> -1,
               pending |-> <<>>, seen |-> <<>>,
               saw_dot |-> FALSE, saw_dotdot |-> FALSE, saw_cargo_toml |-> FALSE]

\* Descriptor d (3, 4, ...) is the (d - 2)-th the kernel opened.
IsOpenDir(k, d) == d - 2 \in 1..Len(k.fds) /\ k.fds[d - 2].kind = "dir"

\* The kernel's openat and getdents64 on the request in registers r; b is how
\* many entries this getdents64 call has room for.  Gives the result word and
\* the kernel state after.
FsCall(k, r, abi, b) ==
    LET op == r[abi.nrreg]
        a1 == r[abi.argregs[1]]
        a2 == r[abi.argregs[2]]
    IN  IF op = ToWord(general("openat")) THEN
            IF a2 \notin DOMAIN Mem THEN [res |-> ToWord(-14), k |-> k]
            ELSE IF ~(Signed(a1) = -100 \/ IsOpenDir(k, Signed(a1)))
                 THEN [res |-> ToWord(-9), k |-> k]
            ELSE IF Count(k.listing, Mem[a2]) = 0 THEN [res |-> ToWord(-2), k |-> k]
            ELSE [res |-> ToWord(Len(k.fds) + 3),
                  k |-> [k EXCEPT !.fds = Append(@,
                            [kind |-> IF Mem[a2] = "Cargo.toml" THEN "file" ELSE "dir",
                             off |-> 0])]]
        ELSE IF op = ToWord(general("getdents64")) THEN
            IF ~IsOpenDir(k, Signed(a1)) THEN [res |-> ToWord(-9), k |-> k]
            ELSE LET d == Signed(a1) - 2
                     n == Min(b, Len(k.listing) - k.fds[d].off)
                 IN [res |-> ToWord(n),
                     k |-> [k EXCEPT !.fds[d].off = @ + n,
                                     !.ubuf = SubSeq(k.listing, k.fds[d].off + 1,
                                                     k.fds[d].off + n)]]
        ELSE [res |-> ToWord(-38), k |-> k]

\* "ecall" against the kernel's directory operations.
EcallFs(t) ==
    /\ pc[t] = "loaded"
    /\ atTrap' = [atTrap EXCEPT ![t] = regs[t]]
    /\ traps' = [traps EXCEPT ![t] = @ + 1]
    /\ \E b \in 1..MaxBatch :
         LET o == FsCall(kernel, regs[t], Abi(target.arch), b) IN
         /\ regs' = [regs EXCEPT ![t][Abi(target.arch).retreg] = o.res]
         /\ kresp' = [kresp EXCEPT ![t] = o.res]
         /\ kernel' = o.k
    /\ pc' = [pc EXCEPT ![t] = "trapped"]
    /\ UNCHANGED <<target, buildVars, inv, call, ret, threads, test>>

\* fs::openat(dirfd, path, oflags, mode): syscall!(__NR_openat, ...).
openat(t, dirfd, path, oflags, mode) ==
    Calls(t, "syscall", "openat", <<dirfd, path, oflags, mode>>)

\* dir.rs lines 3-8: openat(cwd(), ".", RDONLY | CLOEXEC, Mode::empty())
TestOpenCwd ==
    /\ test.pc = "start"
    /\ openat(1, cwd, DotPtr, RdonlyCloexec, ModeEmpty)
    /\ test' = [test EXCEPT !.pc = "w_open_cwd"]
    /\ UNCHANGED kernel

\* dir.rs line 11: Dir::read_from(&t), which opens "." relative to t.
TestReadFrom ==
    /\ test.pc = "read_from"
    /\ openat(1, [kind |-> "fd", val |-> test.t], DotPtr, RdonlyDirCloexec, ModeEmpty)
    /\ test' = [test EXCEPT !.pc = "w_read_from"]
    /\ UNCHANGED kernel

\* dir.rs lines 13-18: openat(&t, "Cargo.toml", RDONLY | CLOEXEC, Mode::empty())
TestOpenFile ==
    /\ test.pc = "open_file"
    /\ openat(1, [kind |-> "fd", val |-> test.t], CargoPtr, RdonlyCloexec, ModeEmpty)
    /\ test' = [test EXCEPT !.pc = "w_open_file"]
    /\ UNCHANGED kernel

\* dir.rs lines 9, 11, 19: .unwrap() of the three results.
TestUnwrap ==
    /\ test.pc \in {"w_open_cwd", "w_read_from", "w_open_file"}
    /\ pc[1] = "returned"
    /\ LET r == from_raw(ret[1].raw) IN
       test' = IF r.kind = "error" THEN [test EXCEPT !.pc = "panicked"]
               ELSE CASE test.pc = "w_open_cwd" ->
                           [test EXCEPT !.pc = "read_from", !.t = Signed(r.payload)]
                      [] test.pc = "w_read_from" ->
                           [test EXCEPT !.pc = "open_file", !.dir = Signed(r.payload)]
                      [] test.pc = "w_open_file" ->
                           [test EXCEPT !.pc = "loop", !.file = Signed(r.payload)]
    /\ pc' = [pc EXCEPT ![1] = "idle"]
    /\ UNCHANGED <<target, buildVars, inv, call, regs, atTrap, traps, kresp, ret,
                   threads, kernel>>

\* Dir's iterator with nothing buffered: syscall!(__NR_getdents64, fd, buf, len).
TestFill ==
    /\ test.pc = "loop"
    /\ test.pending = <<>>
    /\ Calls(1, "syscall", "getdents64",
             <<[kind |-> "fd", val |-> test.dir], BufPtr, BufLen>>)
    /\ test' = [test EXCEPT !.pc = "w_getdents"]
    /\ UNCHANGED kernel

\* The iterator takes the result: an error is yielded and the test's
\* entry.unwrap() (line 25) panics; 0 ends the loop and the asserts of lines
\* 34-36 run; otherwise the entries written are pending.
TestFilled ==
    /\ test.pc = "w_getdents"
    /\ pc[1] = "returned"
    /\ LET r == from_raw(ret[1].raw) IN
       test' = IF r.kind = "error" THEN [test EXCEPT !.pc = "panicked"]
               ELSE IF Signed(r.payload) = 0
                    THEN [test EXCEPT !.pc =
                            IF test.saw_dot /\ test.saw_dotdot /\ test.saw_cargo_toml
                            THEN "passed" ELSE "failed"]
                    ELSE [test EXCEPT !.pc = "loop",
                            !.pending = SubSeq(kernel.ubuf, 1, Signed(r.payload))]
    /\ pc' = [pc EXCEPT ![1] = "idle"]
    /\ UNCHANGED <<target, buildVars, inv, call, regs, atTrap, traps, kresp, ret,
                   threads, kernel>>

\* dir.rs lines 24-33: one entry of the loop.
TestEntry ==
    /\ test.pc = "loop"
    /\ test.pending # <<>>
    /\ LET name == Head(test.pending) IN
       test' = [test EXCEPT
                  !.pending = Tail(@),
                  !.seen = Append(@, name),
                  !.saw_dot = @ \/ name = ".",
                  !.saw_dotdot = @ \/ (name # "." /\ name = ".."),
                  !.saw_cargo_toml = @ \/ (name # "." /\ name # ".." /\ name = "Cargo.toml")]
    /\ UNCHANGED <<target, buildVars, runVars, threads, kernel>>

DoEcallFs == \E t \in threads : EcallFs(t)

NextDir ==
    \/ TestOpenCwd \/ TestReadFrom \/ TestOpenFile \/ TestUnwrap
    \/ TestFill \/ TestFilled \/ TestEntry
    \/ DoLoad \/ DoEcallFs \/ DoReturn

SpecDir == InitDir /\ [][NextDir]_vars

====
